---- MODULE Spec2Model ----
(***************************************************************************)
(* Model of lustc's garbage-collection support (lustc/src/gc.rs): the      *)
(* stack map registry SM_REGISTRY, the root offset resolver                *)
(* root_offsets_from_values, register_stackmaps, and the allocation hook   *)
(* do_gc with its stack walk; and of the interpreter's function call       *)
(* (src/interpreter.rs): eval_funcall and the environments it makes.       *)
(***************************************************************************)
EXTENDS Integers, Sequences, FiniteSets, TLC

VARIABLES registry, ALLOC_AMOUNT, debug_assertions, aborted, latest, last,
          res, collector, collHist, pc, lock, job, envs, call

\* the process state and the history of its calls
gcVars == <<registry, ALLOC_AMOUNT, aborted, latest, last>>

\* a call of the resolver on its own
resolverVars == <<res>>

\* a LocalValueCollector and the history of the calls on it
collectorVars == <<collector, collHist>>

\* threads sharing the registry: program counters, the holder of the
\* registry's Mutex, and each thread's locals
concVars == <<pc, lock, job>>

\* the interpreter's environments and the most recent eval_funcall
interpVars == <<envs, call>>

vars == <<registry, ALLOC_AMOUNT, debug_assertions, aborted, latest, last,
          res, collector, collHist, pc, lock, job, envs, call>>

(***************************************************************************)
(* Bounds of the model.                                                    *)
(***************************************************************************)
MaxId == 2
MaxAmount == 1
MaxAlloc == 2
\* longest handle list given to the resolver on its own
MaxArgs == 2
\* most handles a collector holds at a time
MaxCollected == 3
\* most arguments of a function call
MaxCallArgs == 3

(***************************************************************************)
(* Program constants.                                                      *)
(***************************************************************************)
\* gc.rs:19  const GC_THRESHOLD: crate::Word = 0;
GC_THRESHOLD == 0
\* gc.rs:58  the totem 0xBA5EBA11.  TLC integers are 32 bits wide, so the
\* model keeps the low 16 bits of the totem (0xBA11); the walker only ever
\* compares words with it for equality.
MAGIC == 47633
\* gc.rs:53  for offset in 0..10
SCAN_WORDS == 10
\* gc.rs:56,59,63  the walker's hard-coded bytes per word
WALK_WORD_BYTES == 8
\* isa.pointer_bytes() of the 64-bit target (gc.rs:141)
pointer_bytes == 8

(***************************************************************************)
(* The registry's element type: (escaped offsets, local offsets).          *)
(***************************************************************************)
EmptyPair == <<(<<>>), (<<>>)>>

(***************************************************************************)
(* Compiled functions handed to register_stackmaps: value locations and    *)
(* stack slot layout as produced by the code generator.                    *)
(***************************************************************************)
Stack(ss) == [t |-> "Stack", ss |-> ss]
Reg == [t |-> "Reg", ss |-> 0]
Unassigned == [t |-> "Unassigned", ss |-> 0]

Slot(kind, size, offset) == [kind |-> kind, size |-> size, offset |-> offset]

FnA ==
  [ locations   |-> <<Stack(1), Stack(2), Reg, Stack(3)>>,
    stack_slots |-> <<Slot("ExplicitSlot", 8, -8),
                      Slot("OutgoingArg", 8, -32),
                      Slot("SpillSlot", 8, -24)>>,
    frame_size  |-> 32 ]

FnB ==
  [ locations   |-> <<Stack(1), Stack(1), Stack(2), Unassigned>>,
    stack_slots |-> <<Slot("SpillSlot", 8, -16),
                      Slot("ExplicitSlot", 16, -40)>>,
    frame_size  |-> 48 ]

\* a function laid out for a 32-bit target
FnC ==
  [ locations   |-> <<Stack(1), Stack(3), Stack(2), Reg>>,
    stack_slots |-> <<Slot("ExplicitSlot", 4, -4),
                      Slot("OutgoingArg", 4, -16),
                      Slot("SpillSlot", 4, -12)>>,
    frame_size  |-> 16 ]

Functions == {FnA, FnB}

\* Compilations: a finished function together with the (escaped handles,
\* local handles) returned by LocalValueCollector::get_maps for it
Compilations ==
  { <<FnA, <<(<<>>), (<<>>)>> >>,
    <<FnA, <<(<<1>>), (<<4, 2, 3>>)>> >>,
    <<FnB, <<(<<2>>), (<<3, 1, 5>>)>> >> }

(***************************************************************************)
(* root_offsets_from_values                                                *)
(***************************************************************************)
\* loc.get(*val): None for a handle the location map does not cover
LocGet(func, val) ==
  IF val \in DOMAIN func.locations THEN func.locations[val] ELSE Unassigned

\* the HashSet live_ref_in_stack_slot built by the first loop
LiveRefInStackSlot(args, func) ==
  { LocGet(func, args[i]).ss :
      i \in { j \in DOMAIN args : LocGet(func, args[j]).t = "Stack" } }

\* a second loop that does not skip outgoing-argument slots
SurvivingSlotsKeepOutgoing(args, func) ==
  LET n == Len(func.stack_slots)
      Keep(ss) == ss \in LiveRefInStackSlot(args, func)
  IN  SelectSeq([ss \in 1..n |-> ss], Keep)

\* the stack slots that survive the `continue` of the second loop, in
\* stack slot order
SurvivingSlots(args, func) ==
  LET n == Len(func.stack_slots)
      Keep(ss) == /\ ss \in LiveRefInStackSlot(args, func)
                  /\ func.stack_slots[ss].kind # "OutgoingArg"
  IN  SelectSeq([ss \in 1..n |-> ss], Keep)

\* words_from_bottom of one slot
WordsFromBottom(func, ss, word_size) ==
  (func.frame_size + func.stack_slots[ss].offset) \div word_size

\* debug_assert!(ssd.size as usize == word_size) fails for some surviving slot
ResolverPanics(args, func, word_size, debug) ==
  /\ debug
  /\ \E i \in DOMAIN SurvivingSlots(args, func) :
        func.stack_slots[SurvivingSlots(args, func)[i]].size # word_size

\* a resolver that emits one offset per handle on an ordinary slot, in
\* handle order
root_offsets_per_handle(args, func, word_size) ==
  LET Keep(v) == /\ LocGet(func, v).t = "Stack"
                 /\ func.stack_slots[LocGet(func, v).ss].kind # "OutgoingArg"
      s == SelectSeq(args, Keep)
  IN  [i \in 1..Len(s) |->
         WordsFromBottom(func, LocGet(func, s[i]).ss, word_size)]

root_offsets_from_values(args, func, word_size) ==
  LET s == SurvivingSlots(args, func)
  IN  [i \in 1..Len(s) |-> WordsFromBottom(func, s[i], word_size)]

(***************************************************************************)
(* register_stackmaps                                                      *)
(***************************************************************************)
\* a resize that repeats the vector's last element instead of `value`
ResizeRepeatLast(v, new_len, value) ==
  IF new_len <= Len(v)
    THEN SubSeq(v, 1, new_len)
    ELSE v \o [i \in 1..(new_len - Len(v)) |->
                 IF Len(v) > 0 THEN v[Len(v)] ELSE value]

\* Vec::resize(new_len, value): truncates when new_len < len
Resize(v, new_len, value) ==
  IF new_len <= Len(v)
    THEN SubSeq(v, 1, new_len)
    ELSE v \o [i \in 1..(new_len - Len(v)) |-> value]

\* a registration that fills the gap with the new pair instead of the
\* empty pair
RegistryAfterFillNew(reg, id, offset_lists) ==
  [Resize(reg, id + 1, offset_lists) EXCEPT ![id + 1] = offset_lists]

\* a registration that writes the entry only when the table had to grow
RegistryAfterKeepFirst(reg, id, offset_lists) ==
  IF id < Len(reg)
    THEN Resize(reg, id + 1, EmptyPair)
    ELSE [Resize(reg, id + 1, EmptyPair) EXCEPT ![id + 1] = offset_lists]

\* the registry after the resize and the indexed store (ids are 0-based,
\* TLA+ sequences 1-based)
RegistryAfter(reg, id, offset_lists) ==
  [Resize(reg, id + 1, EmptyPair) EXCEPT ![id + 1] = offset_lists]

OffsetLists(func, maps) ==
  << root_offsets_from_values(maps[1], func, pointer_bytes),
     root_offsets_from_values(maps[2], func, pointer_bytes) >>

\* the stack of a call that is no do_gc
NoStack == [sps |-> <<>>, mem |-> <<>>]

\* Record of the most recent call (history): which operation ran, its
\* inputs, the registry length and entry `id` before a registration, the
\* counter before a do_gc, the stack a do_gc ran on and what its stack walk
\* reported.
NoCall ==
  [ op |-> "none", id |-> 0, prevLen |-> 0, prevEntry |-> EmptyPair,
    amount |-> 0, before |-> 0, walked |-> FALSE, stack |-> NoStack,
    log |-> <<>> ]

register_stackmaps(id, func, maps) ==
  /\ ~aborted
  /\ IF \/ ResolverPanics(maps[1], func, pointer_bytes, debug_assertions)
        \/ ResolverPanics(maps[2], func, pointer_bytes, debug_assertions)
       THEN /\ aborted' = TRUE
            /\ last' = [NoCall EXCEPT !.op = "register_panic", !.id = id]
            /\ UNCHANGED <<registry, latest>>
       ELSE /\ registry' = RegistryAfter(registry, id, OffsetLists(func, maps))
            /\ latest' = [i \in DOMAIN latest \cup {id} |->
                            IF i = id THEN OffsetLists(func, maps)
                                      ELSE latest[i]]
            /\ last' = [NoCall EXCEPT !.op = "register", !.id = id,
                                      !.prevLen = Len(registry),
                                      !.prevEntry =
                                        IF id < Len(registry)
                                          THEN registry[id + 1]
                                          ELSE EmptyPair]
            /\ UNCHANGED aborted
  /\ UNCHANGED <<ALLOC_AMOUNT, debug_assertions>>
  /\ UNCHANGED <<resolverVars, interpVars, collectorVars, concVars>>

Register ==
  \E id \in 0..MaxId, c \in Compilations :
    register_stackmaps(id, c[1], c[2])

(***************************************************************************)
(* The native stack seen by backtrace::trace: the stack pointers of the    *)
(* frames from the trigger point outward, and the stack memory.            *)
(***************************************************************************)
\* words of a frame, relative to its stack pointer, that the model maps
RelWords == -12..6
\* distance in bytes between the stack pointers of successive frames
FRAME_SPACING == 64 * 8

\* a frame without the totem
Foreign == [k \in RelWords |-> 100 + k]

\* a compiled frame whose prologue stored the totem `pos` words below the
\* stack pointer and the function id one word above the totem
Compiled(pos, id) ==
  [k \in RelWords |-> IF k = -pos THEN MAGIC
                       ELSE IF k = 1 - pos THEN id
                       ELSE 100 + k]

MkStack(shapes) ==
  [ sps |-> [j \in 1..Len(shapes) |-> FRAME_SPACING * j],
    mem |-> [a \in { FRAME_SPACING * j + 8 * k :
                        j \in 1..Len(shapes), k \in RelWords } |->
               LET j == (a + (FRAME_SPACING \div 2)) \div FRAME_SPACING
               IN  shapes[j][(a - FRAME_SPACING * j) \div 8]] ]

Stacks ==
  { MkStack(<<Foreign>>),
    MkStack(<<Compiled(0, 0)>>),
    MkStack(<<Foreign, Compiled(2, 1)>>),
    MkStack(<<Compiled(10, 1), Compiled(9, 0)>>),
    MkStack(<<Compiled(2, 2), Foreign, Compiled(0, 1)>>),
    MkStack(<<Compiled(1, 1), Compiled(0, -1), Compiled(0, 0)>>) }

(***************************************************************************)
(* do_gc                                                                   *)
(***************************************************************************)
\* unsafe { *(ptr as *const i64) }
Deref(mem, addr) == mem[addr]

\* registry[id as usize] is in bounds; a negative i64 casts to a usize of at
\* least 2^63, which no Vec length reaches
InBounds(id, len) == id >= 0 /\ id < len

\* a scan whose range includes its upper end (0..=10)
ScanHitsInclusive(mem, sp) ==
  { i \in 0..SCAN_WORDS : Deref(mem, sp - i * WALK_WORD_BYTES) = MAGIC }

\* the scan positions 0..9 at which the word sp - 8 * i is the totem
ScanHits(mem, sp) ==
  { i \in 0..(SCAN_WORDS - 1) : Deref(mem, sp - i * WALK_WORD_BYTES) = MAGIC }

\* the id taken from the word after the totem in scan direction
IdAddrBelow(sp, offset) == sp - offset - WALK_WORD_BYTES

\* address of the function id for a totem found `offset` bytes below sp
IdAddr(sp, offset) == sp - offset + WALK_WORD_BYTES

\* a local root read below the stack pointer, like the totem scan
LocalAddrBelow(sp, o) == sp - o * WALK_WORD_BYTES

\* address read for a local root offset
LocalAddr(sp, o) == sp + o * WALK_WORD_BYTES

\* the roots printed for a frame: one per entry of `local`; `escaped` is
\* bound but never used
FrameRoots(mem, sp, escaped, local) ==
  [j \in 1..Len(local) |->
     [ kind |-> "local", offset |-> local[j],
       addr |-> LocalAddr(sp, local[j]),
       val  |-> Deref(mem, LocalAddr(sp, local[j])) ]]

\* a closure that takes the empty pair for an id outside the registry
WalkFrameLenient(mem, sp, reg) ==
  LET hits == ScanHits(mem, sp)
      miss == [ sp |-> sp, hit |-> FALSE, pos |-> 0, id |-> 0,
                looked |-> FALSE, panic |-> FALSE, entry |-> EmptyPair,
                roots |-> <<>> ]
  IN  IF hits = {}
        THEN miss
        ELSE LET i  == CHOOSE h \in hits : \A g \in hits : h <= g
                 id == Deref(mem, IdAddr(sp, i * WALK_WORD_BYTES))
                 e  == IF InBounds(id, Len(reg)) THEN reg[id + 1] ELSE EmptyPair
             IN  [miss EXCEPT !.hit = TRUE, !.pos = i, !.id = id,
                              !.looked = TRUE, !.entry = e,
                              !.roots = FrameRoots(mem, sp, e[1], e[2])]

\* the body of the closure passed to backtrace::trace, for one frame
WalkFrame(mem, sp, reg) ==
  LET hits == ScanHits(mem, sp)
      miss == [ sp |-> sp, hit |-> FALSE, pos |-> 0, id |-> 0,
                looked |-> FALSE, panic |-> FALSE, entry |-> EmptyPair,
                roots |-> <<>> ]
  IN  IF hits = {}
        THEN miss
        ELSE LET i  == CHOOSE h \in hits : \A g \in hits : h <= g
                 id == Deref(mem, IdAddr(sp, i * WALK_WORD_BYTES))
             IN  IF ~InBounds(id, Len(reg))
                   THEN [miss EXCEPT !.hit = TRUE, !.pos = i, !.id = id,
                                     !.looked = TRUE, !.panic = TRUE]
                   ELSE [miss EXCEPT !.hit = TRUE, !.pos = i, !.id = id,
                                     !.looked = TRUE, !.entry = reg[id + 1],
                                     !.roots = FrameRoots(mem, sp,
                                                 reg[id + 1][1], reg[id + 1][2])]

\* a walk whose closure returns false after a recognised frame
RECURSIVE WalkFromStopAtHit(_, _, _)
WalkFromStopAtHit(stack, reg, j) ==
  IF j > Len(stack.sps)
    THEN <<>>
    ELSE LET f == WalkFrame(stack.mem, stack.sps[j], reg)
         IN  IF f.panic \/ f.hit
               THEN <<f>>
               ELSE <<f>> \o WalkFromStopAtHit(stack, reg, j + 1)

\* backtrace::trace: the closure runs for each frame outward and returns
\* true; a panic in the closure ends the walk and the process
RECURSIVE WalkFrom(_, _, _)
WalkFrom(stack, reg, j) ==
  IF j > Len(stack.sps)
    THEN <<>>
    ELSE LET f == WalkFrame(stack.mem, stack.sps[j], reg)
         IN  IF f.panic THEN <<f>> ELSE <<f>> \o WalkFrom(stack, reg, j + 1)

Walk(stack, reg) == WalkFrom(stack, reg, 1)

WalkPanics(log) == \E j \in DOMAIN log : log[j].panic

\* the trigger without its `true ||`
ShouldCollectOverThreshold(alloc) == alloc > GC_THRESHOLD

\* if unsafe { true || ALLOC_AMOUNT > GC_THRESHOLD }
ShouldCollect(alloc) == TRUE \/ alloc > GC_THRESHOLD

do_gc(amount, stack) ==
  LET log == Walk(stack, registry)
  IN  /\ ~aborted
      /\ ALLOC_AMOUNT + amount <= MaxAlloc
      /\ ALLOC_AMOUNT' = ALLOC_AMOUNT + amount
      /\ IF ShouldCollect(ALLOC_AMOUNT + amount)
           THEN /\ last' = [NoCall EXCEPT !.op = "do_gc", !.amount = amount,
                                          !.before = ALLOC_AMOUNT,
                                          !.walked = TRUE,
                                          !.stack = stack,
                                          !.log = log]
                /\ aborted' = WalkPanics(log)
           ELSE /\ last' = [NoCall EXCEPT !.op = "do_gc", !.amount = amount,
                                          !.before = ALLOC_AMOUNT,
                                          !.stack = stack]
                /\ UNCHANGED aborted
      /\ UNCHANGED <<registry, latest, debug_assertions>>
      /\ UNCHANGED <<resolverVars, interpVars, collectorVars, concVars>>

DoGc ==
  \E amount \in 0..MaxAmount, stack \in Stacks : do_gc(amount, stack)

\* the process after construction, for either build
InitProcess ==
  /\ registry = <<>>
  /\ ALLOC_AMOUNT = 0
  /\ debug_assertions \in BOOLEAN
  /\ aborted = FALSE
  /\ latest = <<>>
  /\ last = NoCall

(***************************************************************************)
(* root_offsets_from_values on its own: one call on a handle list, a       *)
(* finished function and a pointer width.                                  *)
(***************************************************************************)
Handles == 1..5
PointerWidths == {4, 8}
ResolverFunctions == {FnA, FnB, FnC}

RECURSIVE SeqsUpTo(_, _)
SeqsUpTo(S, n) ==
  IF n = 0
    THEN { <<>> }
    ELSE SeqsUpTo(S, n - 1) \cup
         { Append(q, x) : q \in { r \in SeqsUpTo(S, n - 1) : Len(r) = n - 1 },
                          x \in S }

NoResolve ==
  [ state |-> "none", args |-> <<>>, func |-> FnA, word_size |-> pointer_bytes,
    out |-> <<>> ]

ResolveInputs ==
  { [NoResolve EXCEPT !.state = "input", !.args = a, !.func = f,
                      !.word_size = w] :
      a \in SeqsUpTo(Handles, MaxArgs), f \in ResolverFunctions,
      w \in PointerWidths }

Resolve ==
  /\ res.state = "input"
  /\ res' = IF ResolverPanics(res.args, res.func, res.word_size,
                              debug_assertions)
              THEN [res EXCEPT !.state = "panic"]
              ELSE [res EXCEPT !.state = "done",
                               !.out = root_offsets_from_values(
                                         res.args, res.func, res.word_size)]
  /\ UNCHANGED <<gcVars, debug_assertions, collectorVars, concVars, interpVars>>

(***************************************************************************)
(* LocalValueCollector                                                     *)
(***************************************************************************)
CollValues == 1..2

\* LocalValueCollector::new
LVC_new == [escaped |-> <<>>, local |-> <<>>]

LVC_register_escaped(c, val) == [c EXCEPT !.escaped = Append(@, val)]

LVC_register_local(c, val) == [c EXCEPT !.local = Append(@, val)]

\* a clear that forgets the local sequence
LVC_clear_escaped_only(c) == [c EXCEPT !.escaped = <<>>]

LVC_clear(c) == [c EXCEPT !.escaped = <<>>, !.local = <<>>]

LVC_get_maps(c) == <<c.escaped, c.local>>

\* History of a collector: whether the instance still exists (get_maps
\* consumes it), the registrations since the most recent clear or since
\* construction, whether a clear discarded handles of both kinds, and what
\* get_maps returned.
NoHist ==
  [ live |-> TRUE, ops |-> <<>>, cleared |-> FALSE, got |-> FALSE,
    maps |-> <<(<<>>), (<<>>)>> ]

CollNew ==
  /\ ~collHist.live
  /\ collector' = LVC_new
  /\ collHist' = NoHist
  /\ UNCHANGED <<gcVars, debug_assertions, resolverVars, interpVars, concVars>>

CollRegisterEscaped ==
  \E val \in CollValues :
    /\ collHist.live
    /\ Len(collector.escaped) + Len(collector.local) < MaxCollected
    /\ collector' = LVC_register_escaped(collector, val)
    /\ collHist' = [collHist EXCEPT
                       !.ops = Append(@, [kind |-> "escaped", val |-> val])]
    /\ UNCHANGED <<gcVars, debug_assertions, resolverVars, interpVars, concVars>>

CollRegisterLocal ==
  \E val \in CollValues :
    /\ collHist.live
    /\ Len(collector.escaped) + Len(collector.local) < MaxCollected
    /\ collector' = LVC_register_local(collector, val)
    /\ collHist' = [collHist EXCEPT
                       !.ops = Append(@, [kind |-> "local", val |-> val])]
    /\ UNCHANGED <<gcVars, debug_assertions, resolverVars, interpVars, concVars>>

CollClear ==
  /\ collHist.live
  /\ collector' = LVC_clear(collector)
  /\ collHist' = [collHist EXCEPT
                     !.ops = <<>>,
                     !.cleared = @ \/ (/\ collector.escaped # <<>>
                                        /\ collector.local # <<>>)]
  /\ UNCHANGED <<gcVars, debug_assertions, resolverVars, interpVars, concVars>>

CollGetMaps ==
  /\ collHist.live
  /\ collHist' = [collHist EXCEPT !.live = FALSE, !.got = TRUE,
                                   !.maps = LVC_get_maps(collector)]
  /\ UNCHANGED collector
  /\ UNCHANGED <<gcVars, debug_assertions, resolverVars, interpVars, concVars>>

(***************************************************************************)
(* The interpreter (src/interpreter.rs): LustData, LustEnv, evaluation of  *)
(* an expression in an environment, and eval_funcall.                      *)
(***************************************************************************)
\* LustData; Fn and Mac values are made by the builtins fn and macro only
Number(n) == [t |-> "Number", n |-> n, s |-> "", l |-> <<>>]
Symbol(s) == [t |-> "Symbol", n |-> 0, s |-> s, l |-> <<>>]
List(l) == [t |-> "List", n |-> 0, s |-> "", l |-> l]
Builtin(name) == [t |-> "Builtin", n |-> 0, s |-> name, l |-> <<>>]

\* the names installed by LustEnv::new_with_defaults
Builtins ==
  { "quote", "car", "cdr", "cons", "if", "eval", "set", "let", "fn", "macro",
    "macroexpand", "println", "negate", "add", "sub", "mul", "div", "lt",
    "gt", "eq" }

\* Option<Rc<RefCell<LustEnv>>>: an environment is named by its place in
\* envs, and None is 0
None == 0

\* LustEnv::new
LustEnv_new == [ data |-> [b \in Builtins |-> Builtin(b)], outer |-> None ]

\* HashMap::insert
Insert(data, k, v) ==
  [x \in (DOMAIN data) \cup {k} |-> IF x = k THEN v ELSE data[x]]

\* Result<LustData, String>, and a panic of the thread
NoErr == [ msg |-> "", got |-> 0, expected |-> 0, id |-> "",
           pred |-> Number(0) ]
Ok(v) == [ kind |-> "Ok", val |-> v, err |-> NoErr ]
Err(e) == [ kind |-> "Err", val |-> Number(0), err |-> e ]
Panicked == [ kind |-> "Panic", val |-> Number(0), err |-> NoErr ]

\* LustEnv::resolve
RECURSIVE resolve(_, _, _)
resolve(heap, env, id) ==
  IF id \in DOMAIN heap[env].data
    THEN Ok(heap[env].data[id])
    ELSE IF heap[env].outer # None
           THEN resolve(heap, heap[env].outer, id)
           ELSE Err([NoErr EXCEPT !.msg = "failed to resolve identifier",
                                  !.id = id])

\* Interpreter::is_macro_call
is_macro_call(heap, ast, env) ==
  /\ ast.t = "List"
  /\ Len(ast.l) # 0
  /\ LET pred == ast.l[1]
     IN \/ /\ pred.t = "Symbol"
           /\ resolve(heap, env, pred.s).kind = "Ok"
           /\ resolve(heap, env, pred.s).val.t = "Mac"
        \/ pred.t = "Mac"

\* Interpreter::eval_in_env on an expression that is no call of a builtin,
\* a function or a macro: macroexpand returns it unchanged, and
\* eval_without_expansion resolves a symbol, returns a number or the empty
\* list as it is, and has eval_list reject a list whose head evaluates to
\* something that cannot be called
RECURSIVE eval_in_env(_, _, _)
eval_in_env(heap, expr, env) ==
  CASE expr.t = "Symbol" -> resolve(heap, env, expr.s)
    [] expr.t = "List" /\ Len(expr.l) = 0 -> Ok(expr)
    [] expr.t = "List" /\ Len(expr.l) # 0 /\ ~is_macro_call(heap, expr, env) ->
         LET pred == eval_in_env(heap, expr.l[1], env)
         IN IF pred.kind # "Ok"
              THEN pred
              ELSE (CASE pred.val.t \notin {"Builtin", "Fn", "Mac"} ->
                      Err([NoErr EXCEPT !.msg = "invalid list predicate",
                                        !.pred = pred.val]))
    [] expr.t \notin {"Symbol", "List"} -> Ok(expr)

\* LustFn
LustFn(params, body) == [ params |-> params, body |-> body ]

\* LustFn::is_varadic
is_varadic(func) == \E i \in DOMAIN func.params : func.params[i] = "&"

\* LustFn::get_min_param_count, with one parameter too many for the marker
get_min_param_count_less_one(func) ==
  IF \E i \in DOMAIN func.params : func.params[i] = "&"
    THEN Len(func.params) - 1
    ELSE Len(func.params)

\* LustFn::get_min_param_count
get_min_param_count(func) ==
  IF \E i \in DOMAIN func.params : func.params[i] = "&"
    THEN Len(func.params) - 2
    ELSE Len(func.params)

\* interpreter.rs:170-174: the remaining arguments are evaluated in order in
\* the caller's environment, the first error ending the call
RECURSIVE EvalRest(_, _, _, _)
EvalRest(heap, exprs, env, acc) ==
  IF exprs = <<>>
    THEN Ok(List(acc))
    ELSE LET v == eval_in_env(heap, Head(exprs), env)
         IN IF v.kind # "Ok"
              THEN v
              ELSE EvalRest(heap, Tail(exprs), env, Append(acc, v.val))

\* interpreter.rs:164-184: the loop over the parameters from the i-th on
\* (i counts from 1; the code's index is i - 1), data being the bindings
\* inserted so far
RECURSIVE BindParams(_, _, _, _, _, _)
BindParams(heap, func, args, env, i, data) ==
  IF i > Len(func.params)
    THEN [ kind |-> "Ok", data |-> data, err |-> NoErr ]
    ELSE IF func.params[i] = "&"
      THEN IF i + 1 > Len(func.params)
             THEN [ kind |-> "Panic", data |-> data, err |-> NoErr ]
             ELSE LET bind == func.params[i + 1]
                      val == IF i - 1 >= Len(args)
                               THEN Ok(List(<<>>))
                               ELSE EvalRest(heap, SubSeq(args, i, Len(args)),
                                             env, <<>>)
                  IN IF val.kind # "Ok"
                       THEN [ kind |-> val.kind, data |-> data,
                              err |-> val.err ]
                       ELSE [ kind |-> "Ok",
                              data |-> Insert(data, bind, val.val),
                              err |-> NoErr ]
      ELSE IF i > Len(args)
        THEN [ kind |-> "Panic", data |-> data, err |-> NoErr ]
        ELSE LET v == eval_in_env(heap, args[i], env)
             IN IF v.kind # "Ok"
                  THEN [ kind |-> v.kind, data |-> data, err |-> v.err ]
                  ELSE BindParams(heap, func, args, env, i + 1,
                                  Insert(data, func.params[i], v.val))

\* Result<CallResult, String> of eval_funcall
NoResult ==
  [ kind |-> "none", err |-> NoErr, fnenv |-> LustEnv_new,
    body |-> Number(0) ]

\* Interpreter::eval_funcall
eval_funcall(heap, func, args, env) ==
  IF \/ is_varadic(func) /\ Len(args) < get_min_param_count(func)
     \/ ~is_varadic(func) /\ Len(args) # Len(func.params)
    THEN IF is_varadic(func)
           THEN [NoResult EXCEPT
                   !.kind = "Err",
                   !.err = [NoErr EXCEPT
                              !.msg = "wrong number of arguments for function call. got {} and expected at least {}",
                              !.got = Len(args),
                              !.expected = Len(func.params)]]
           ELSE [NoResult EXCEPT
                   !.kind = "Err",
                   !.err = [NoErr EXCEPT
                              !.msg = "wrong number of arguments for function call. got {} and expected {}",
                              !.got = Len(args),
                              !.expected = get_min_param_count(func)]]
    ELSE LET bound == BindParams(heap, func, args, env, 1, LustEnv_new.data)
         IN IF bound.kind # "Ok"
              THEN [NoResult EXCEPT !.kind = bound.kind, !.err = bound.err]
              ELSE [NoResult EXCEPT
                      !.kind = "Call",
                      !.fnenv = [ data |-> bound.data, outer |-> env ],
                      !.body = func.body]

\* the functions called: without parameters, with one and two, with a
\* repeated name, with a rest parameter alone and after a parameter, and
\* two whose marker is not followed by exactly one name
LustFns ==
  { LustFn(<<>>, Number(0)),
    LustFn(<<"a">>, Symbol("a")),
    LustFn(<<"a", "b">>, Symbol("b")),
    LustFn(<<"a", "a">>, Symbol("a")),
    LustFn(<<"&", "r">>, Symbol("r")),
    LustFn(<<"a", "&", "r">>, Symbol("r")),
    LustFn(<<"a", "&">>, Symbol("a")),
    LustFn(<<"&", "r", "b">>, Symbol("b")) }

\* the argument expressions of a call: a number, a symbol bound by some
\* functions only, a symbol bound in every environment, the empty list and
\* a list whose head cannot be called
ArgExprs ==
  { Number(1), Symbol("a"), Symbol("car"), List(<<>>), List(<<Number(1)>>) }

\* the most recent eval_funcall: its inputs, the number of environments
\* before it, its result and the place of the environment it made
NoFuncall ==
  [ state |-> "none", func |-> LustFn(<<>>, Number(0)), args |-> <<>>,
    env |-> None, before |-> 0, result |-> NoResult, fnenv |-> None ]

\* Interpreter::new: the global environment
GlobalOnly == << LustEnv_new >>

\* the environments while the body of (fn (a) ...) called on 2 in the
\* global environment is evaluated
InFnBody ==
  Append(GlobalOnly,
         [ data |-> Insert(LustEnv_new.data, "a", Number(2)), outer |-> 1 ])

\* the environments while, in that body, the body of (fn (& r) ...) called
\* on 1 is evaluated
InNestedFnBody ==
  Append(InFnBody,
         [ data |-> Insert(LustEnv_new.data, "r", List(<< Number(1) >>)),
           outer |-> 2 ])

Heaps == { GlobalOnly, InFnBody, InNestedFnBody }

InitInterp ==
  /\ envs = GlobalOnly
  /\ call = NoFuncall

\* eval_list calls eval_funcall in the global environment or in the
\* environment of a function whose body is being evaluated
EvalFuncall ==
  /\ call.state = "none"
  /\ \E func \in LustFns, args \in SeqsUpTo(ArgExprs, MaxCallArgs),
        env \in DOMAIN envs :
       LET r == eval_funcall(envs, func, args, env)
       IN /\ envs' = IF r.kind = "Call" THEN Append(envs, r.fnenv) ELSE envs
          /\ call' = [ state |-> "done", func |-> func, args |-> args,
                       env |-> env, before |-> Len(envs), result |-> r,
                       fnenv |-> IF r.kind = "Call" THEN Len(envs) + 1
                                                    ELSE None ]
  /\ UNCHANGED <<gcVars, debug_assertions, resolverVars, collectorVars,
                 concVars>>

\* interpreter.rs:75,87: the evaluation of the call ends and the
\* environment made for it is dropped
EvalEnds ==
  /\ call.state = "done"
  /\ envs' = SubSeq(envs, 1, call.before)
  /\ call' = NoFuncall
  /\ UNCHANGED <<gcVars, debug_assertions, resolverVars, collectorVars,
                 concVars>>

\* no thread is running
IdleConc ==
  /\ pc = <<>>
  /\ lock = "free"
  /\ job = <<>>

Init ==
  /\ InitProcess
  /\ InitInterp
  /\ res = NoResolve
  /\ collector = LVC_new /\ collHist = NoHist
  /\ IdleConc

Next == Register \/ DoGc

Spec == Init /\ [][Next]_vars

InitResolver ==
  /\ InitProcess
  /\ InitInterp
  /\ res \in ResolveInputs
  /\ collector = LVC_new /\ collHist = NoHist
  /\ IdleConc

NextResolver == Resolve

SpecResolver == InitResolver /\ [][NextResolver]_vars

(***************************************************************************)
(* Threads on the registry: compilation threads in register_stackmaps and  *)
(* the mutator thread in do_gc's lookup, one step per statement.           *)
(***************************************************************************)
Compilers == {"c1", "c2"}
Walker == "w"
Threads == Compilers \cup {Walker}
\* function ids the threads use
ConcIds == 0..1

NoJob == [id |-> 0, lists |-> EmptyPair]

\* a lock whose acquisition never waits
MutexNeverBlocks(holder) == TRUE

\* SM_REGISTRY.lock() returns once no thread holds the Mutex
MutexAvailable(holder) == holder = "free"

\* gc.rs:168-171: the offset lists are computed before the lock is taken
RegStart(t) ==
  \E id \in ConcIds, c \in Compilations :
    /\ ~aborted /\ pc[t] = "idle"
    /\ IF \/ ResolverPanics(c[2][1], c[1], pointer_bytes, debug_assertions)
          \/ ResolverPanics(c[2][2], c[1], pointer_bytes, debug_assertions)
         THEN /\ aborted' = TRUE
              /\ UNCHANGED <<pc, job>>
         ELSE /\ job' = [job EXCEPT ![t] = [id |-> id,
                                             lists |-> OffsetLists(c[1], c[2])]]
              /\ pc' = [pc EXCEPT ![t] = "lock"]
              /\ UNCHANGED aborted
    /\ UNCHANGED <<registry, ALLOC_AMOUNT, latest, last, lock>>
    /\ UNCHANGED <<debug_assertions, resolverVars, interpVars, collectorVars>>

\* gc.rs:172
RegLock(t) ==
  /\ ~aborted /\ pc[t] = "lock"
  /\ MutexAvailable(lock)
  /\ lock' = t
  /\ pc' = [pc EXCEPT ![t] = "resize"]
  /\ UNCHANGED <<gcVars, job, debug_assertions, resolverVars, interpVars, collectorVars>>

\* gc.rs:175
RegResize(t) ==
  /\ ~aborted /\ pc[t] = "resize"
  /\ registry' = Resize(registry, job[t].id + 1, EmptyPair)
  /\ pc' = [pc EXCEPT ![t] = "store"]
  /\ UNCHANGED <<ALLOC_AMOUNT, aborted, latest, last, lock, job>>
  /\ UNCHANGED <<debug_assertions, resolverVars, interpVars, collectorVars>>

\* gc.rs:176
RegStore(t) ==
  /\ ~aborted /\ pc[t] = "store"
  /\ registry' = [registry EXCEPT ![job[t].id + 1] = job[t].lists]
  /\ pc' = [pc EXCEPT ![t] = "unlock"]
  /\ UNCHANGED <<ALLOC_AMOUNT, aborted, latest, last, lock, job>>
  /\ UNCHANGED <<debug_assertions, resolverVars, interpVars, collectorVars>>

\* gc.rs:177: the guard is dropped when register_stackmaps returns
RegUnlock(t) ==
  /\ ~aborted /\ pc[t] = "unlock"
  /\ lock' = "free"
  /\ pc' = [pc EXCEPT ![t] = "idle"]
  /\ job' = [job EXCEPT ![t] = NoJob]
  /\ UNCHANGED <<gcVars, debug_assertions, resolverVars, interpVars, collectorVars>>

\* gc.rs:58-59: the walker found a totem and read the id
WalkStart ==
  \E id \in ConcIds :
    /\ ~aborted /\ pc[Walker] = "idle"
    /\ job' = [job EXCEPT ![Walker] = [NoJob EXCEPT !.id = id]]
    /\ pc' = [pc EXCEPT ![Walker] = "lock"]
    /\ UNCHANGED <<gcVars, lock, debug_assertions, resolverVars, interpVars,
                   collectorVars>>

\* gc.rs:60
WalkLock ==
  /\ ~aborted /\ pc[Walker] = "lock"
  /\ MutexAvailable(lock)
  /\ lock' = Walker
  /\ pc' = [pc EXCEPT ![Walker] = "lookup"]
  /\ UNCHANGED <<gcVars, job, debug_assertions, resolverVars, interpVars, collectorVars>>

\* gc.rs:61
WalkLookup ==
  /\ ~aborted /\ pc[Walker] = "lookup"
  /\ IF InBounds(job[Walker].id, Len(registry))
       THEN /\ job' = [job EXCEPT ![Walker].lists =
                                     registry[job[Walker].id + 1]]
            /\ pc' = [pc EXCEPT ![Walker] = "roots"]
            /\ UNCHANGED aborted
       ELSE /\ aborted' = TRUE
            /\ UNCHANGED <<pc, job>>
  /\ UNCHANGED <<registry, ALLOC_AMOUNT, latest, last, lock>>
  /\ UNCHANGED <<debug_assertions, resolverVars, interpVars, collectorVars>>

\* gc.rs:62-66: the roots are read through the borrowed entry
WalkRoots ==
  /\ ~aborted /\ pc[Walker] = "roots"
  /\ pc' = [pc EXCEPT ![Walker] = "unlock"]
  /\ UNCHANGED <<gcVars, lock, job, debug_assertions, resolverVars, interpVars,
                 collectorVars>>

\* gc.rs:67-68: the guard is dropped at the end of the block
WalkUnlock ==
  /\ ~aborted /\ pc[Walker] = "unlock"
  /\ lock' = "free"
  /\ pc' = [pc EXCEPT ![Walker] = "idle"]
  /\ job' = [job EXCEPT ![Walker] = NoJob]
  /\ UNCHANGED <<gcVars, debug_assertions, resolverVars, interpVars, collectorVars>>

InitConc ==
  /\ InitProcess
  /\ InitInterp
  /\ res = NoResolve
  /\ collector = LVC_new /\ collHist = NoHist
  /\ pc = [t \in Threads |-> "idle"]
  /\ lock = "free"
  /\ job = [t \in Threads |-> NoJob]

NextConc ==
  \/ \E t \in Compilers : RegStart(t)
  \/ \E t \in Compilers : RegLock(t)
  \/ \E t \in Compilers : RegResize(t)
  \/ \E t \in Compilers : RegStore(t)
  \/ \E t \in Compilers : RegUnlock(t)
  \/ WalkStart
  \/ WalkLock
  \/ WalkLookup
  \/ WalkRoots
  \/ WalkUnlock

SpecConc == InitConc /\ [][NextConc]_vars

NextCollector ==
  \/ CollNew
  \/ CollRegisterEscaped
  \/ CollRegisterLocal
  \/ CollClear
  \/ CollGetMaps

SpecCollector == Init /\ [][NextCollector]_vars

\* the interpreter, at a call made in the global environment or while a
\* function's body is evaluated
InitInterpreter ==
  /\ InitProcess
  /\ res = NoResolve
  /\ collector = LVC_new /\ collHist = NoHist
  /\ IdleConc
  /\ envs \in Heaps
  /\ call = NoFuncall

NextInterp == EvalFuncall \/ EvalEnds

SpecInterp == InitInterpreter /\ [][NextInterp]_vars

(***************************************************************************)
(* Properties                                                              *)
(***************************************************************************)
Lookup(id) == registry[id + 1]

\* the frames the most recent do_gc reported
Frames == IF last.op = "do_gc" THEN { last.log[j] : j \in DOMAIN last.log } ELSE {}

\* C1: after any sequence of registrations, every id that was ever
\* registered is in bounds and its entry is the pair of its most recent
\* registration.
C1_RoundTrip ==
  \A id \in DOMAIN latest :
    InBounds(id, Len(registry)) /\ Lookup(id) = latest[id]

\* C2: no call makes the registry shorter.
C2_NeverShrinks == [][Len(registry') >= Len(registry)]_vars

\* C3: register(N, pair) on a registry of length M <= N leaves length N+1,
\* the empty pair at every index in [M, N), and pair at index N.
C3_GrowthGapFill ==
  [][ (last'.op = "register" /\ Len(registry) <= last'.id) =>
        /\ Len(registry') = last'.id + 1
        /\ \A i \in Len(registry)..(last'.id - 1) : registry'[i + 1] = EmptyPair
        /\ registry'[last'.id + 1] = latest'[last'.id]
    ]_vars

C3_Witness ==
  /\ last.op = "register"
  /\ last.prevLen < last.id
  /\ Len(registry) = last.id + 1
  /\ Lookup(last.prevLen) = EmptyPair
  /\ Lookup(last.id) # EmptyPair

\* C4: a registration of the id registered by the call before it leaves
\* lookup(id) returning the second pair, and changes nothing when the
\* second pair equals the first.
C4_LastWriteWins ==
  [][ (last.op = "register" /\ last'.op = "register" /\ last'.id = last.id) =>
        /\ InBounds(last'.id, Len(registry'))
        /\ registry'[last'.id + 1] = latest'[last'.id]
        /\ (latest'[last'.id] = latest[last.id] => registry' = registry)
    ]_vars

C4_Witness ==
  /\ last.op = "register"
  /\ last.prevLen = last.id + 1
  /\ last.prevEntry # EmptyPair
  /\ Lookup(last.id) # last.prevEntry
  /\ Lookup(last.id) # EmptyPair

\* C5: every index in bounds that was never passed to register holds the
\* empty pair, and a walker lookup of such an index does not fail and
\* yields the empty pair.
C5_UnregisteredEmpty ==
  /\ \A i \in 0..(Len(registry) - 1) :
       i \notin DOMAIN latest => Lookup(i) = EmptyPair
  /\ \A f \in Frames :
       (f.looked /\ InBounds(f.id, Len(registry)) /\ f.id \notin DOMAIN latest)
         => (~f.panic /\ f.entry = EmptyPair /\ f.roots = <<>>)

C5_Witness ==
  \E f \in Frames :
    /\ f.looked /\ InBounds(f.id, Len(registry)) /\ f.id \notin DOMAIN latest
    /\ ~f.panic
    /\ \E i \in DOMAIN latest : Lookup(i) # EmptyPair

\* C6: do_gc walks the stack exactly when the counter, after adding the
\* amount, exceeds the threshold.
C6_WalkIffOverThreshold ==
  last.op = "do_gc" => (last.walked <=> ALLOC_AMOUNT > GC_THRESHOLD)

C8_CounterResetByCollection ==
  (last.op = "do_gc" /\ last.walked /\ ~aborted /\ last.before + last.amount > 0)
     => ALLOC_AMOUNT < last.before + last.amount

\* C9: for a recognised frame the walker reports one root per local
\* offset and one root per escaped offset of the frame's entry.
C9_RootPerOffset ==
  \A f \in Frames :
    (f.hit /\ ~f.panic) =>
       /\ Len(f.roots) = Len(f.entry[1]) + Len(f.entry[2])
       /\ Cardinality({j \in DOMAIN f.roots : f.roots[j].kind = "local"})
            = Len(f.entry[2])
       /\ Cardinality({j \in DOMAIN f.roots : f.roots[j].kind = "escaped"})
            = Len(f.entry[1])

\* C10: a local root with offset o of a frame with stack pointer sp is read
\* at sp - o * word_size.
C10_LocalRootBelowSp ==
  \A f \in Frames : \A j \in DOMAIN f.roots :
    f.roots[j].kind = "local" =>
      f.roots[j].addr = f.sp - f.roots[j].offset * pointer_bytes

\* C10 (amended): the local roots of a recognised frame are read, one per
\* offset o of the entry's local list and in its order, at sp + o * 8.
C10_LocalRootAboveSp ==
  \A f \in Frames :
    (f.hit /\ ~f.panic) =>
      /\ Len(f.roots) = Len(f.entry[2])
      /\ \A j \in DOMAIN f.roots :
           /\ f.roots[j].offset = f.entry[2][j]
           /\ f.roots[j].addr = f.sp + f.entry[2][j] * 8

C10_Witness ==
  \E f \in Frames :
    /\ f.hit /\ ~f.panic /\ Len(f.roots) = 2
    /\ f.roots[1].offset = 4 /\ f.roots[1].addr = f.sp + 32
    /\ f.roots[2].offset = 1 /\ f.roots[2].addr = f.sp + 8

\* the word of frame j of the last do_gc's stack, i words below its stack
\* pointer (i < 0: above it)
WordBelow(j, i) == last.stack.mem[last.stack.sps[j] - 8 * i]

\* frame j holds the totem in one of its first 10 words from the stack
\* pointer downward
TotemInWindow(j) == \E i \in 0..9 : WordBelow(j, i) = MAGIC

\* C11: with K = 10, a frame with the totem in one of the first K words
\* from its stack pointer downward is recognised; a frame with the totem
\* only at word K+1 or beyond is a miss, and a miss is no error, reports no
\* roots and looks nothing up.
C11_ScanWindow ==
  last.op = "do_gc" =>
    \A j \in DOMAIN last.log :
      LET f == last.log[j] IN
        /\ f.sp = last.stack.sps[j]
        /\ TotemInWindow(j) => f.hit
        /\ ~TotemInWindow(j) =>
             /\ ~f.hit /\ ~f.looked /\ ~f.panic /\ f.roots = <<>>
             /\ (j = Len(last.log) => (~aborted /\ j = Len(last.stack.sps)))

C11_Witness ==
  /\ last.op = "do_gc" /\ Len(last.log) = 2 /\ ~aborted
  /\ WordBelow(1, 10) = MAGIC /\ ~last.log[1].hit
  /\ WordBelow(2, 9) = MAGIC /\ last.log[2].hit /\ last.log[2].roots # <<>>

\* the scan position of the first totem of frame j
FirstTotem(j) ==
  CHOOSE i \in 0..9 : /\ WordBelow(j, i) = MAGIC
                       /\ \A h \in 0..(i - 1) : WordBelow(j, h) # MAGIC

\* C12: the id looked up for a totem found at scan position i is the word
\* at scan position i + 1, the word after the totem in scan order.
C12_IdAfterTotemInScanOrder ==
  last.op = "do_gc" =>
    \A j \in DOMAIN last.log :
      last.log[j].looked =>
        last.log[j].id = WordBelow(j, last.log[j].pos + 1)

\* C12 (amended): the id looked up for a totem found at scan position i is
\* the word at the next higher address, sp - 8 * i + 8: scan position
\* i - 1, and for i = 0 the word at sp + 8.
C12_IdAboveTotem ==
  last.op = "do_gc" =>
    \A j \in DOMAIN last.log :
      LET f == last.log[j] IN
        /\ f.hit => (f.looked /\ f.pos = FirstTotem(j))
        /\ f.looked =>
             /\ f.id = WordBelow(j, f.pos - 1)
             /\ f.panic = ~(0 <= f.id /\ f.id < Len(registry))
             /\ ~f.panic => f.entry = Lookup(f.id)

C12_Witness ==
  /\ last.op = "do_gc" /\ Len(last.log) = 3 /\ ~aborted
  /\ last.log[1].looked /\ last.log[1].pos = 2 /\ last.log[1].id = 2
  /\ WordBelow(1, 1) = 2 /\ WordBelow(1, 3) # 2
  /\ last.log[3].looked /\ last.log[3].pos = 0 /\ last.log[3].id = 1
  /\ WordBelow(3, -1) = 1 /\ WordBelow(3, 1) # 1
  /\ Lookup(1) # Lookup(2)

\* the id stored one word above the first totem of frame j
StoredId(j) == WordBelow(j, FirstTotem(j) - 1)

\* every frame of the last do_gc's stack is foreign or carries an id that
\* is in the registry's bounds
ChainInBounds ==
  \A j \in DOMAIN last.stack.sps :
    TotemInWindow(j) => (0 <= StoredId(j) /\ StoredId(j) < Len(registry))

\* C13: on a chain of foreign frames and compiled frames with in-bounds
\* ids the walk reports every frame in order, outermost included, and
\* every compiled frame has its roots enumerated: no miss and no hit ends
\* the walk.
C13_WalkVisitsEveryFrame ==
  (last.op = "do_gc" /\ ChainInBounds) =>
     /\ ~aborted
     /\ Len(last.log) = Len(last.stack.sps)
     /\ \A j \in DOMAIN last.stack.sps :
          LET f == last.log[j] IN
            /\ f.sp = last.stack.sps[j]
            /\ f.hit = TotemInWindow(j)
            /\ f.hit => /\ f.entry = Lookup(StoredId(j))
                         /\ Len(f.roots) = Len(Lookup(StoredId(j))[2])

C13_Witness ==
  /\ last.op = "do_gc" /\ ChainInBounds /\ Len(last.stack.sps) = 3
  /\ TotemInWindow(1) /\ ~TotemInWindow(2) /\ TotemInWindow(3)
  /\ last.log[1].roots # <<>> /\ last.log[2].roots = <<>>
  /\ last.log[3].roots # <<>>

\* C14: a lookup with an id outside the registry's bounds (at or beyond
\* its length, or negative) ends the process: the frame gets no entry and
\* no roots, no further frame is walked, and the registry is unchanged.
C14_OutOfBoundsIsFatal ==
  [][ last'.op = "do_gc" =>
        /\ registry' = registry
        /\ \A j \in DOMAIN last'.log :
             LET f == last'.log[j] IN
               (f.looked /\ (f.id < 0 \/ f.id >= Len(registry))) =>
                  /\ f.panic /\ aborted'
                  /\ f.entry = EmptyPair /\ f.roots = <<>>
                  /\ j = Len(last'.log)
    ]_vars

C14_Witness ==
  /\ last.op = "do_gc" /\ aborted /\ Len(last.stack.sps) = 3
  /\ Len(last.log) = 2 /\ Len(registry) >= 2
  /\ last.log[1].roots # <<>>
  /\ last.log[2].looked /\ last.log[2].id = -1 /\ last.log[2].panic
  /\ TotemInWindow(3)

\* C20: a registration leaves every entry other than its own, at an index
\* that was in bounds before the call, in bounds and unchanged.
C20_OtherEntriesUntouched ==
  [][ last'.op = "register" =>
        \A j \in 0..(Len(registry) - 1) :
          j # last'.id =>
            /\ j < Len(registry')
            /\ registry'[j + 1] = registry[j + 1]
    ]_vars

(***************************************************************************)
(* Properties of the resolver                                              *)
(***************************************************************************)
\* handle v of function f lives in a stack slot
OnStack(f, v) == v \in DOMAIN f.locations /\ f.locations[v].t = "Stack"

SlotOf(f, v) == f.stack_slots[f.locations[v].ss]

\* handle v lives in a stack slot that is no outgoing-call-argument slot
Ordinary(f, v) == OnStack(f, v) /\ SlotOf(f, v).kind # "OutgoingArg"

OnOutgoing(f, v) == OnStack(f, v) /\ SlotOf(f, v).kind = "OutgoingArg"

\* (frame_size + slot_byte_offset) / word_size of the slot of handle v
OffsetOf(f, v, w) == (f.frame_size + SlotOf(f, v).offset) \div w

\* C15: the resolver emits offsets only for handles on ordinary stack
\* slots (none for registers, unknown locations or outgoing-argument
\* slots), and for one ordinary handle and one outgoing-argument handle it
\* returns exactly the offset (frame_size + slot_byte_offset) / word_size
\* of the ordinary one.
C15_ResolverFilters ==
  res.state = "done" =>
    LET f == res.func  a == res.args  w == res.word_size IN
      /\ \A k \in DOMAIN res.out :
           \E i \in DOMAIN a :
             Ordinary(f, a[i]) /\ res.out[k] = OffsetOf(f, a[i], w)
      /\ (\A i \in DOMAIN a : ~Ordinary(f, a[i])) => res.out = <<>>
      /\ \A i, j \in DOMAIN a :
           (Len(a) = 2 /\ Ordinary(f, a[i]) /\ OnOutgoing(f, a[j])) =>
              res.out = << OffsetOf(f, a[i], w) >>

C15_Witness ==
  /\ res.state = "done" /\ res.func = FnA /\ res.word_size = 8
  /\ res.args = <<2, 1>>
  /\ Ordinary(FnA, 1) /\ OnOutgoing(FnA, 2)
  /\ res.out = <<3>>

\* the handles of a list that live on ordinary stack slots, in list order
SurvivingHandles(f, a) ==
  LET Keep(v) == Ordinary(f, v) IN SelectSeq(a, Keep)

\* the ordinary stack slots holding at least one handle of the list
LiveSlots(f, a) ==
  { ss \in DOMAIN f.stack_slots :
      /\ f.stack_slots[ss].kind # "OutgoingArg"
      /\ \E i \in DOMAIN a : OnStack(f, a[i]) /\ f.locations[a[i]].ss = ss }

\* the k-th slot of a set of slots in stack slot order
KthSlot(S, k) == CHOOSE ss \in S : Cardinality({t \in S : t <= ss}) = k

\* C16: the output has one offset per surviving handle, in the order of
\* the input handles, duplicates included.
C16_OffsetPerHandle ==
  res.state = "done" =>
    /\ Len(res.out) = Len(SurvivingHandles(res.func, res.args))
    /\ \A k \in DOMAIN res.out :
         res.out[k] = OffsetOf(res.func, SurvivingHandles(res.func, res.args)[k],
                               res.word_size)

\* C16 (amended): the output has one offset per distinct ordinary stack
\* slot that holds a surviving handle, in stack slot order, so two
\* surviving handles on one slot produce one offset.
C16_OffsetPerSlot ==
  res.state = "done" =>
    LET S == LiveSlots(res.func, res.args) IN
      /\ Len(res.out) = Cardinality(S)
      /\ \A k \in DOMAIN res.out :
           res.out[k] = (res.func.frame_size
                           + res.func.stack_slots[KthSlot(S, k)].offset)
                          \div res.word_size

C16_Witness ==
  /\ res.state = "done" /\ res.func = FnB /\ res.word_size = 8
  /\ res.args = <<2, 1>>
  /\ Len(SurvivingHandles(FnB, res.args)) = 2
  /\ res.out = <<4>>

\* C17: when a surviving handle's slot has a size other than the word
\* size, the resolver ends in a fatal error and emits no offset.
C17_WordSizedSlotsOnly ==
  (/\ res.state \in {"done", "panic"}
   /\ \E i \in DOMAIN res.args :
        /\ Ordinary(res.func, res.args[i])
        /\ SlotOf(res.func, res.args[i]).size # res.word_size)
    => (res.state = "panic" /\ res.out = <<>>)

(***************************************************************************)
(* Properties of the collector                                             *)
(***************************************************************************)
\* the handles of one kind among the registrations, in registration order
RECURSIVE Registered(_, _)
Registered(ops, kind) ==
  IF ops = <<>>
    THEN <<>>
    ELSE IF ops[1].kind = kind
           THEN <<ops[1].val>> \o Registered(Tail(ops), kind)
           ELSE Registered(Tail(ops), kind)

\* C18: the collector holds, and get_maps returns, exactly the handles
\* registered since the most recent clear or since construction, the
\* escaped ones in the escaped sequence and the local ones in the local
\* sequence, each in registration order; after clear both are empty.
C18_CollectorReuse ==
  /\ collHist.live =>
       /\ collector.escaped = Registered(collHist.ops, "escaped")
       /\ collector.local = Registered(collHist.ops, "local")
  /\ collHist.got =>
       collHist.maps = << Registered(collHist.ops, "escaped"),
                          Registered(collHist.ops, "local") >>

C18_Witness ==
  /\ collHist.got /\ collHist.cleared
  /\ Len(collHist.ops) = 3
  /\ collHist.maps = << <<2>>, <<1, 2>> >>

(***************************************************************************)
(* Properties of the threads                                               *)
(***************************************************************************)
\* thread t is between taking and releasing the registry's lock
InCritical(t) ==
  t \in DOMAIN pc /\ pc[t] \in {"resize", "store", "unlock", "lookup", "roots"}

\* thread t has resized the registry for its id and not yet written the
\* entry
HalfRegistered(t) == t \in DOMAIN pc /\ pc[t] = "store"

\* C19: accesses to the registry exclude each other, and the resize and
\* the store of a registration are one critical section: while a thread
\* has resized and not yet stored it holds the lock, and no other thread
\* is at a lookup or inside a registration.
C19_RegisterAtomic ==
  /\ \A t, u \in Threads : (InCritical(t) /\ InCritical(u)) => t = u
  /\ \A t \in Threads : InCritical(t) => lock = t
  /\ \A t \in Compilers :
       HalfRegistered(t) =>
         /\ lock = t
         /\ \A u \in Threads \ {t} : ~InCritical(u)

C19_Witness ==
  /\ HalfRegistered("c1") /\ job["c1"].id = 1
  /\ Len(registry) = 2 /\ registry[2] = EmptyPair
  /\ job["c1"].lists # EmptyPair
  /\ pc["c2"] = "lock" /\ job["c2"].id = 1
  /\ pc[Walker] = "lock" /\ job[Walker].id = 1

(***************************************************************************)
(* Properties of the interpreter                                           *)
(***************************************************************************)
\* the places of the "&" marker in a parameter list
Markers(params) == { i \in DOMAIN params : params[i] = "&" }

\* a parameter list with at most one marker, the marker followed by
\* exactly one rest name
WellFormed(params) ==
  /\ Cardinality(Markers(params)) <= 1
  /\ \A i \in Markers(params) : i + 1 = Len(params)

\* the number of arguments of the recorded call is wrong for its function
CountWrong ==
  IF Markers(call.func.params) # {}
    THEN Len(call.args) < Len(call.func.params) - 2
    ELSE Len(call.args) # Len(call.func.params)

\* the environments the recorded call found
HeapBefore == SubSeq(envs, 1, call.before)

\* the evaluation of the i-th argument of the recorded call in the
\* caller's environment
ArgResult(i) == eval_in_env(HeapBefore, call.args[i], call.env)

\* the evaluation of some argument of the recorded call returns an error
ArgFails == \E i \in DOMAIN call.args : ArgResult(i).kind = "Err"

\* the places of the parameters before the marker, or of all parameters
Positional ==
  { i \in DOMAIN call.func.params : \A m \in Markers(call.func.params) : i < m }

\* the recorded call returned Call with an environment that did not exist
\* before, whose outer environment is the caller's, and that binds every
\* named parameter: a parameter whose name occurs once to the value of its
\* argument, the rest name to the list of the values of the remaining
\* arguments
ReturnsCallBindingParams ==
  /\ call.result.kind = "Call"
  /\ call.fnenv \notin 1..call.before
  /\ call.fnenv \in DOMAIN envs
  /\ envs[call.fnenv] = call.result.fnenv
  /\ envs[call.fnenv].outer = call.env
  /\ LET params == call.func.params
         data == envs[call.fnenv].data
     IN /\ \A i \in DOMAIN params :
             params[i] # "&" => params[i] \in DOMAIN data
        /\ \A i \in Positional :
             (\A j \in DOMAIN params : params[j] = params[i] => j = i)
               => data[params[i]] = ArgResult(i).val
        /\ \A m \in Markers(params) :
             data[params[m + 1]] =
               List([ k \in 1..(Len(call.args) - (m - 1)) |->
                        ArgResult(m - 1 + k).val ])

\* C21 as claimed: for a function whose parameter list has at most one
\* marker followed by exactly one rest name, eval_funcall returns Err
\* exactly when the argument count is wrong, and otherwise returns Call
\* with a fresh environment that binds every named parameter and whose
\* outer environment is the caller's.
C21_ErrIffCountWrong ==
  (call.state = "done" /\ WellFormed(call.func.params)) =>
    /\ call.result.kind = "Err" <=> CountWrong
    /\ ~CountWrong => ReturnsCallBindingParams

\* C21: for such a function eval_funcall returns Err exactly when the
\* argument count is wrong or the evaluation of one of the arguments
\* returns Err, and otherwise returns Call with a fresh environment that
\* binds every named parameter (the rest name to the list of the values of
\* the remaining arguments, empty when none remain) and whose outer
\* environment is the caller's.
C21_ErrIffCountWrongOrArgFails ==
  (call.state = "done" /\ WellFormed(call.func.params)) =>
    /\ call.result.kind = "Err" <=> (CountWrong \/ ArgFails)
    /\ ~(CountWrong \/ ArgFails) => ReturnsCallBindingParams

C21_Witness ==
  /\ call.state = "done"
  /\ call.func.params = <<"a", "&", "r">>
  /\ call.args = << Symbol("a"), List(<<>>), Symbol("car") >>
  /\ call.env = 3
  /\ call.result.kind = "Call"
  /\ envs[call.fnenv].data["a"] = Number(2)
  /\ envs[call.fnenv].data["r"] = List(<< List(<<>>), Builtin("car") >>)
====
